---- MODULE Spec2Model ----
(***************************************************************************)
(* A model of pdf-say.py: extract_main_text (per-page dominant font size,  *)
(* line assembly, reference-section trimming), main, and narrate_text with *)
(* its spinner thread.                                                     *)
(*                                                                         *)
(* A string is a sequence of one-character strings; a token (a pdfplumber  *)
(* word dict) is a record with the fields text, top, x0 and, when the      *)
(* tokenizer supplied it, size.  Positions and sizes are numbers in fixed  *)
(* units.                                                                  *)
(***************************************************************************)
EXTENDS Integers, Sequences, FiniteSets, TLC

VARIABLES
    pc,                \* position of the main thread
    pages,             \* pdf.pages: the per-page word lists the tokenizer yields
    page_number,       \* number of pages the loop of extract_main_text has taken
    words,             \* extract_main_text: words of the page last taken
    most_common_size,  \* extract_main_text: dominant size of the page last taken
    main_words,        \* extract_main_text: filtered and sorted words of that page
    line_words,        \* the words behind each entry of `lines` of that page
    main_text,         \* extract_main_text: list of page texts
    full_text,         \* extract_main_text: the joined page texts (line 55)
    text,              \* main: the string extract_main_text returned
    stdout,            \* messages printed so far
    exit_code,         \* process exit status (NotExited while running)
    spinner_done,      \* narrate_text: the flag the spinner polls
    spinner_pc,        \* position of the spinner thread
    spinner_c,         \* index of the spinner frame last written
    text_file,         \* TRUE while the temporary text file exists
    audio_file         \* TRUE while the temporary audio file exists

vars == <<pc, pages, page_number, words, most_common_size, main_words, line_words,
          main_text, full_text, text, stdout, exit_code, spinner_done, spinner_pc,
          spinner_c, text_file, audio_file>>

extractVars == <<pages, page_number, words, most_common_size, main_words, line_words,
                 main_text, full_text, text>>

narrateVars == <<spinner_done, spinner_pc, spinner_c, text_file, audio_file>>

-----------------------------------------------------------------------------
(* Strings *)

Str_References == <<"R","e","f","e","r","e","n","c","e","s">>
Str_Bibliography == <<"B","i","b","l","i","o","g","r","a","p","h","y">>
Str_REFERENCES == <<"R","E","F","E","R","E","N","C","E","S">>
Str_BIBLIOGRAPHY == <<"B","I","B","L","I","O","G","R","A","P","H","Y">>

\* line 58
ref_keywords == <<Str_References, Str_Bibliography, Str_REFERENCES, Str_BIBLIOGRAPHY>>

Space == <<" ">>
BlankLine == <<"\n", "\n">>

Min(S) == CHOOSE x \in S : \A y \in S : x <= y

\* str.join: the items separated by sep
RECURSIVE Join(_, _)
Join(sep, items) ==
    IF Len(items) = 0 THEN <<>>
    ELSE IF Len(items) = 1 THEN items[1]
    ELSE items[1] \o sep \o Join(sep, Tail(items))

\* the 0-based offsets at which kw occurs in s
Occurrences(s, kw) ==
    {i \in 0..(Len(s) - Len(kw)) : SubSeq(s, i + 1, i + Len(kw)) = kw}

\* str.find: the lowest offset at which kw occurs in s, or -1
Find(s, kw) ==
    IF Occurrences(s, kw) = {} THEN -1 ELSE Min(Occurrences(s, kw))

\* s[:index], with Python's reading of a negative index
SliceTo(s, index) ==
    IF index >= 0
    THEN SubSeq(s, 1, IF index < Len(s) THEN index ELSE Len(s))
    ELSE SubSeq(s, 1, IF Len(s) + index > 0 THEN Len(s) + index ELSE 0)

IsSpace(c) == c \in {" ", "\n", "\t", "\r"}

\* str.strip
RECURSIVE LStrip(_)
LStrip(s) == IF Len(s) > 0 /\ IsSpace(s[1]) THEN LStrip(Tail(s)) ELSE s

RECURSIVE RStrip(_)
RStrip(s) ==
    IF Len(s) > 0 /\ IsSpace(s[Len(s)]) THEN RStrip(SubSeq(s, 1, Len(s) - 1)) ELSE s

Strip(s) == RStrip(LStrip(s))

-----------------------------------------------------------------------------
(* extract_main_text: one page *)

HasSize(w) == "size" \in DOMAIN w

\* float(): sizes are numbers already, in fixed units; the value is kept
Float(v) == v

\* line 25
FontSizes(ws) ==
    LET sized == SelectSeq(ws, HasSize)
    IN  [i \in 1..Len(sized) |-> Float(sized[i].size)]

Count(sizes, v) == Cardinality({i \in 1..Len(sizes) : sizes[i] = v})

FirstIndex(sizes, v) == Min({i \in 1..Len(sizes) : sizes[i] = v})

\* a faulty variant: the first size of the page, whatever its count
MostCommonSize_first(sizes) == sizes[1]

\* line 29, Counter(font_sizes).most_common(1)[0][0]: a Counter lists its keys
\* in the order of first insertion and most_common(1) takes the first key of
\* maximal count
MostCommonSize(sizes) ==
    LET vals == {sizes[i] : i \in 1..Len(sizes)}
        best == {v \in vals : \A u \in vals : Count(sizes, u) <= Count(sizes, v)}
    IN  CHOOSE v \in best : \A u \in best : FirstIndex(sizes, v) <= FirstIndex(sizes, u)

\* w.get('size', 0)
SizeOrDefault(w) == IF HasSize(w) THEN w.size ELSE 0

\* line 32
FilterMain(ws, size) ==
    LET Keep(w) == Float(SizeOrDefault(w)) = size
    IN  SelectSeq(ws, Keep)

\* the sort key (w['top'], w['x0']), compared as Python compares tuples
KeyLeq(a, b) == a.top < b.top \/ (a.top = b.top /\ a.x0 <= b.x0)

\* w placed after every word of the sorted list whose key is not greater
RECURSIVE InsertSorted(_, _)
InsertSorted(sorted, w) ==
    IF Len(sorted) = 0 THEN <<w>>
    ELSE IF KeyLeq(sorted[Len(sorted)], w) THEN Append(sorted, w)
    ELSE Append(InsertSorted(SubSeq(sorted, 1, Len(sorted) - 1), w), sorted[Len(sorted)])

\* a faulty variant: the words left in the order supplied
SortWords_none(ws) == ws

\* line 35: list.sort is stable
RECURSIVE SortWords(_)
SortWords(ws) ==
    IF Len(ws) = 0 THEN <<>>
    ELSE InsertSorted(SortWords(SubSeq(ws, 1, Len(ws) - 1)), ws[Len(ws)])

Abs(n) == IF n < 0 THEN -n ELSE n

\* line 42: the vertical threshold
LineThreshold == 2

\* a faulty variant: a strict comparison
SameLine_strict(top, last_top) == Abs(top - last_top) < LineThreshold

\* line 42: abs(word['top'] - last_top) <= 2
SameLine(top, last_top) == Abs(top - last_top) <= LineThreshold

\* lines 38-49: the walk over main_words from word i on; `lines` holds the
\* finished lines and current_line the open one, as sequences of words
RECURSIVE WalkLines(_, _, _, _)
WalkLines(ws, i, lines, current_line) ==
    IF i > Len(ws)
    THEN IF Len(current_line) > 0 THEN Append(lines, current_line) ELSE lines
    ELSE IF i = 1 \/ SameLine(ws[i].top, ws[i - 1].top)
         THEN WalkLines(ws, i + 1, lines, Append(current_line, ws[i]))
         ELSE WalkLines(ws, i + 1, Append(lines, current_line), <<ws[i]>>)

AssembleLines(ws) == WalkLines(ws, 1, <<>>, <<>>)

Texts(ws) == [i \in 1..Len(ws) |-> ws[i].text]

\* lines 45, 49: ' '.join(current_line) for every line
LineStrings(groups) == [i \in 1..Len(groups) |-> Join(Space, Texts(groups[i]))]

\* line 51
PageText(groups) == Join(Space, LineStrings(groups))

MainWordsOf(ws) == SortWords(FilterMain(ws, MostCommonSize(FontSizes(ws))))

\* lines 21-27: the page is skipped
Skipped(ws) == Len(ws) = 0 \/ Len(FontSizes(ws)) = 0

\* a faulty variant: a skipped page leaves an empty page text behind
NextMainText_blank(mt, ws) ==
    IF Skipped(ws) THEN Append(mt, <<>>)
    ELSE Append(mt, PageText(AssembleLines(MainWordsOf(ws))))

\* lines 21-52: main_text after the page
NextMainText(mt, ws) ==
    IF Skipped(ws) THEN mt
    ELSE Append(mt, PageText(AssembleLines(MainWordsOf(ws))))

-----------------------------------------------------------------------------
(* extract_main_text: the whole document *)

\* a faulty variant: the test of find's result left out
TrimFrom_nocheck(s, k) ==
    IF k > Len(ref_keywords) THEN s
    ELSE SliceTo(s, Find(s, ref_keywords[k]))

\* lines 59-63: the keyword loop from keyword k on
RECURSIVE TrimFrom(_, _)
TrimFrom(s, k) ==
    IF k > Len(ref_keywords) THEN s
    ELSE LET index == Find(s, ref_keywords[k])
         IN  IF index # -1 THEN SliceTo(s, index) ELSE TrimFrom(s, k + 1)

\* lines 57-65
TrimReferences(s) == TrimFrom(s, 1)

-----------------------------------------------------------------------------
(* Exceptions and output *)

NotExited == -1

Msg_Extracting == "Extracting text from PDF..."
Msg_NoMainText == "No main text found in the PDF."
Msg_Error == "Error: {e}"
Msg_FileNotFound == "Error: File '{pdf_file}' not found."
Msg_ConversionComplete == "Conversion complete!"
Msg_Playing == "Playing audio. Press SPACE to pause/resume, 'S' to stop."
Msg_ErrorPlaying == "Error playing audio: {e}"

\* a faulty variant: a handler that catches every BaseException
IsException_all(e) == TRUE

\* `except Exception` catches e: SystemExit derives from BaseException only
IsException(e) == e # "SystemExit"

\* line 146: not text.strip()
NoBodyText(s) == Len(Strip(s)) = 0

-----------------------------------------------------------------------------
(* Actions of extract_main_text *)

\* lines 17-52: one iteration of the page loop
ExtractPage ==
    /\ pc = "pages"
    /\ page_number < Len(pages)
    /\ LET ws == pages[page_number + 1]
       IN  /\ words' = ws
           /\ main_text' = NextMainText(main_text, ws)
           /\ IF Skipped(ws)
              THEN UNCHANGED <<most_common_size, main_words, line_words>>
              ELSE /\ most_common_size' = MostCommonSize(FontSizes(ws))
                   /\ main_words' = MainWordsOf(ws)
                   /\ line_words' = AssembleLines(MainWordsOf(ws))
    /\ page_number' = page_number + 1
    /\ UNCHANGED <<pc, pages, full_text, text, stdout, exit_code>>
    /\ UNCHANGED narrateVars

\* line 55: the loop is over and the page texts are joined
JoinPages ==
    /\ pc = "pages"
    /\ page_number = Len(pages)
    /\ full_text' = Join(BlankLine, main_text)
    /\ pc' = "trim"
    /\ UNCHANGED <<pages, page_number, words, most_common_size, main_words, line_words,
                   main_text, text, stdout, exit_code>>
    /\ UNCHANGED narrateVars

\* lines 57-65: the keyword loop and the return to main (line 145)
TrimAndReturn ==
    /\ pc = "trim"
    /\ text' = TrimReferences(full_text)
    /\ pc' = "returned"
    /\ UNCHANGED <<pages, page_number, words, most_common_size, main_words, line_words,
                   main_text, full_text, stdout, exit_code>>
    /\ UNCHANGED narrateVars

\* pdfplumber.open or page.extract_words raises; main's handler (lines 150-152)
SupplierFailure ==
    /\ pc = "pages"
    /\ stdout' = IF IsException("SupplierFailure") THEN Append(stdout, Msg_Error) ELSE stdout
    /\ exit_code' = 1
    /\ pc' = "exit"
    /\ UNCHANGED extractVars
    /\ UNCHANGED narrateVars

-----------------------------------------------------------------------------
(* Actions of main *)

\* lines 139-141
MainFileNotFound ==
    /\ pc = "start"
    /\ stdout' = Append(stdout, Msg_FileNotFound)
    /\ exit_code' = 1
    /\ pc' = "exit"
    /\ UNCHANGED extractVars
    /\ UNCHANGED narrateVars

\* lines 143-145: the file exists and extract_main_text is entered
MainExtract ==
    /\ pc = "start"
    /\ stdout' = Append(stdout, Msg_Extracting)
    /\ pc' = "pages"
    /\ UNCHANGED <<exit_code>>
    /\ UNCHANGED extractVars
    /\ UNCHANGED narrateVars

\* lines 146-149: sys.exit(1) raises SystemExit inside the try block
MainCheck ==
    /\ pc = "returned"
    /\ IF NoBodyText(text)
       THEN /\ stdout' = IF IsException("SystemExit")
                         THEN stdout \o <<Msg_NoMainText, Msg_Error>>
                         ELSE Append(stdout, Msg_NoMainText)
            /\ exit_code' = 1
            /\ pc' = "exit"
       ELSE /\ pc' = "narrate"
            /\ UNCHANGED <<stdout, exit_code>>
    /\ UNCHANGED extractVars
    /\ UNCHANGED narrateVars

\* narrate_text returned and main ends
MainReturn ==
    /\ pc = "narrate_returned"
    /\ exit_code' = 0
    /\ pc' = "exit"
    /\ UNCHANGED <<stdout>>
    /\ UNCHANGED extractVars
    /\ UNCHANGED narrateVars

-----------------------------------------------------------------------------
(* Actions of narrate_text *)

\* lines 68-86: both temporary files are created
NarrateSetup ==
    /\ pc = "narrate"
    /\ text_file' = TRUE
    /\ audio_file' = TRUE
    /\ spinner_done' = FALSE
    /\ pc' = "start_spinner"
    /\ UNCHANGED <<stdout, exit_code, spinner_pc, spinner_c>>
    /\ UNCHANGED extractVars

\* lines 100-101
StartSpinner ==
    /\ pc = "start_spinner"
    /\ spinner_pc' = "poll"
    /\ pc' = "say"
    /\ UNCHANGED <<stdout, exit_code, spinner_done, spinner_c, text_file, audio_file>>
    /\ UNCHANGED extractVars

\* line 104: `say` ends with status 0
SayCompletes ==
    /\ pc = "say"
    /\ pc' = "finally"
    /\ UNCHANGED <<stdout, exit_code>>
    /\ UNCHANGED narrateVars
    /\ UNCHANGED extractVars

\* lines 104-107: `say` cannot be run or ends with another status
\* (check=True); the Exception is printed
SayRaises ==
    /\ pc = "say"
    /\ stdout' = Append(stdout, Msg_Error)
    /\ pc' = "finally"
    /\ UNCHANGED <<exit_code>>
    /\ UNCHANGED narrateVars
    /\ UNCHANGED extractVars

\* line 110
StopSpinner ==
    /\ pc = "finally"
    /\ spinner_done' = TRUE
    /\ pc' = "join"
    /\ UNCHANGED <<stdout, exit_code, spinner_pc, spinner_c, text_file, audio_file>>
    /\ UNCHANGED extractVars

\* a faulty variant: the text file is removed and playback begun without the join
JoinSpinner_nowait ==
    /\ pc = "join"
    /\ text_file' = FALSE
    /\ stdout' = Append(stdout, Msg_Playing)
    /\ pc' = "afplay"
    /\ UNCHANGED <<exit_code, spinner_done, spinner_pc, spinner_c, audio_file>>
    /\ UNCHANGED extractVars

\* lines 111-119: join returns once the spinner thread has ended
JoinSpinner ==
    /\ pc = "join"
    /\ spinner_pc = "ended"
    /\ text_file' = FALSE
    /\ stdout' = Append(stdout, Msg_Playing)
    /\ pc' = "afplay"
    /\ UNCHANGED <<exit_code, spinner_done, spinner_pc, spinner_c, audio_file>>
    /\ UNCHANGED extractVars

\* lines 123, 128: `afplay` ends, with any status
AfplayCompletes ==
    /\ pc = "afplay"
    /\ audio_file' = FALSE
    /\ pc' = "narrate_returned"
    /\ UNCHANGED <<stdout, exit_code, spinner_done, spinner_pc, spinner_c, text_file>>
    /\ UNCHANGED extractVars

\* lines 123-128: `afplay` cannot be run
AfplayRaises ==
    /\ pc = "afplay"
    /\ stdout' = Append(stdout, Msg_ErrorPlaying)
    /\ audio_file' = FALSE
    /\ pc' = "narrate_returned"
    /\ UNCHANGED <<exit_code, spinner_done, spinner_pc, spinner_c, text_file>>
    /\ UNCHANGED extractVars

\* the frames of line 89
SpinnerFrames == 4

\* lines 89-94: the flag is clear; a frame is written and the thread sleeps
SpinnerSpin ==
    /\ spinner_pc = "poll"
    /\ ~spinner_done
    /\ spinner_c' = (spinner_c + 1) % SpinnerFrames
    /\ UNCHANGED <<pc, stdout, exit_code, spinner_done, spinner_pc, text_file, audio_file>>
    /\ UNCHANGED extractVars

\* lines 90-96: the flag is set; the loop is left and the thread ends
SpinnerStop ==
    /\ spinner_pc = "poll"
    /\ spinner_done
    /\ stdout' = Append(stdout, Msg_ConversionComplete)
    /\ spinner_pc' = "ended"
    /\ UNCHANGED <<pc, exit_code, spinner_done, spinner_c, text_file, audio_file>>
    /\ UNCHANGED extractVars

-----------------------------------------------------------------------------
(* Specifications *)

\* the state before any page is read, for the document doc
InitWith(doc, at) ==
    /\ pc = at
    /\ pages = doc
    /\ page_number = 0
    /\ words = <<>>
    /\ most_common_size = 0
    /\ main_words = <<>>
    /\ line_words = <<>>
    /\ main_text = <<>>
    /\ full_text = <<>>
    /\ text = <<>>
    /\ stdout = <<>>
    /\ exit_code = NotExited
    /\ spinner_done = FALSE
    /\ spinner_pc = "unstarted"
    /\ spinner_c = 0
    /\ text_file = FALSE
    /\ audio_file = FALSE

SeqsUpTo(S, n) == UNION {[1..k -> S] : k \in 0..n}

Sized(t, size, top, x0) == [text |-> t, size |-> size, top |-> top, x0 |-> x0]
Unsized(t, top, x0) == [text |-> t, top |-> top, x0 |-> x0]

NextExtract == ExtractPage \/ JoinPages \/ TrimAndReturn

NextMain == MainFileNotFound \/ MainExtract \/ SupplierFailure \/ MainCheck \/ MainReturn

NextNarrate ==
    \/ NarrateSetup \/ StartSpinner \/ SayCompletes \/ SayRaises
    \/ StopSpinner \/ JoinSpinner \/ AfplayCompletes \/ AfplayRaises

NextSpinner == SpinnerSpin \/ SpinnerStop

Next == NextExtract \/ NextMain \/ NextNarrate \/ NextSpinner

(* The whole program, on documents of up to MaxPages pages, each empty or   *)
(* of one word: a sized word, a word without size, or a sized marker.       *)
MaxPages == 3

MainTokens ==
    {Sized(<<"x">>, 1, 0, 0), Unsized(<<"y">>, 0, 1), Sized(Str_References, 1, 3, 0)}

MainPages == {<<>>} \cup {<<t>> : t \in MainTokens}

MainDocs(n) == SeqsUpTo(MainPages, n)

Init == \E doc \in MainDocs(MaxPages) : InitWith(doc, "start")

Spec == Init /\ [][Next]_vars

(* The same program with the scheduling the code relies on: the main thread *)
(* goes on whenever it can (`say` and `afplay` end or raise), and so does   *)
(* the spinner thread.                                                      *)
SpecLive ==
    /\ Init
    /\ [][Next]_vars
    /\ WF_vars(NextExtract \/ NextMain \/ NextNarrate)
    /\ WF_vars(NextSpinner)

-----------------------------------------------------------------------------
(* Claims on the whole program *)

Range(f) == {f[i] : i \in DOMAIN f}

TextOfPage(ws) == PageText(AssembleLines(MainWordsOf(ws)))

\* the texts of the pages, among the first n of doc, that carry a sized word
RECURSIVE TextsOfSizedPages(_, _)
TextsOfSizedPages(doc, n) ==
    IF n = 0 THEN <<>>
    ELSE IF \E i \in 1..Len(doc[n]) : HasSize(doc[n][i])
         THEN Append(TextsOfSizedPages(doc, n - 1), TextOfPage(doc[n]))
         ELSE TextsOfSizedPages(doc, n - 1)

\* C6: a page with no word, or with no word carrying a size, adds nothing: the
\* list of page texts holds exactly the texts of the pages carrying a sized
\* word, in page order, the joined text has one separator between two of them
\* and none for a skipped page, and no error is reported for a skipped page.
C6_SkippedPageContributesNothing ==
    /\ main_text = TextsOfSizedPages(pages, page_number)
    /\ pc \in {"trim", "returned"} =>
          full_text = Join(BlankLine, TextsOfSizedPages(pages, Len(pages)))
    /\ pc \in {"pages", "trim", "returned"} => stdout = <<Msg_Extracting>>

C6_Witness ==
    /\ pc = "returned"
    /\ \E i, j \in 1..Len(pages) :
          /\ i < j
          /\ Len(pages[i]) > 0
          /\ Skipped(pages[i])
          /\ ~Skipped(pages[j])
    /\ \E i \in 1..Len(pages) : Len(pages[i]) = 0
    /\ Len(main_text) = 1
    /\ text = main_text[1]

Narrating ==
    pc \in {"narrate", "start_spinner", "say", "finally", "join", "afplay",
            "narrate_returned"}

\* C7: when the returned text is empty or only white space, main prints the
\* "no main text" message, exits with status 1 and never enters narrate_text;
\* a failure of the tokenizer prints the error message and never the "no main
\* text" message, so the two outcomes differ.
C7_NoBodyTextIsDistinct ==
    /\ [](Narrating \/ spinner_pc # "unstarted" \/ text_file \/ audio_file
            => Len(Strip(text)) > 0)
    /\ [][/\ (pc = "returned" /\ Len(Strip(text)) = 0) =>
                /\ pc' = "exit"
                /\ exit_code' = 1
                /\ stdout' = <<Msg_Extracting, Msg_NoMainText>>
          /\ (pc = "pages" /\ pc' = "exit") =>
                /\ stdout' = <<Msg_Extracting, Msg_Error>>
                /\ stdout' # <<Msg_Extracting, Msg_NoMainText>>]_vars

C7_Witness ==
    /\ pc = "exit"
    /\ stdout = <<Msg_Extracting, Msg_NoMainText>>
    /\ Len(pages) > 0
    /\ \A i \in 1..Len(pages) : Len(pages[i]) > 0 /\ Skipped(pages[i])

\* C10: playback starts only after the spinner thread has seen the flag and
\* ended; when narrate_text has returned both temporary files are gone; and
\* every call of narrate_text returns, with the spinner thread ended.
C10_SpinnerJoinedAndFilesRemoved ==
    /\ [](pc \in {"afplay", "narrate_returned"} =>
            spinner_done /\ spinner_pc = "ended" /\ ~text_file)
    /\ [](pc = "narrate_returned" => ~text_file /\ ~audio_file)
    /\ (pc = "narrate") ~>
          (pc = "narrate_returned" /\ spinner_pc = "ended" /\ ~text_file /\ ~audio_file)

C10_Witness ==
    /\ pc = "narrate_returned"
    /\ Msg_Error \in Range(stdout)
    /\ Msg_ErrorPlaying \in Range(stdout)
    /\ spinner_pc = "ended"
    /\ spinner_c > 0
    /\ ~text_file
    /\ ~audio_file

-----------------------------------------------------------------------------
(* extract_main_text alone, on one page of up to MaxWords words.  The words *)
(* vary either in size (absent, 0, 1, 2) or in position.                    *)
MaxWords == 3

SizeTokens ==
    {Sized(<<t>>, size, 0, 0) : t \in {"a", "b"}, size \in {0, 1, 2}}
        \cup {Unsized(<<t>>, 0, 0) : t \in {"a", "b"}}

PositionTokens == {Sized(<<"a">>, 1, top, x0) : top \in {0, 1, 3, 6}, x0 \in {0, 1}}

PageDocs(n) ==
    {<<p>> : p \in SeqsUpTo(SizeTokens, n) \cup SeqsUpTo(PositionTokens, n)}

InitPage == \E doc \in PageDocs(MaxWords) : InitWith(doc, "pages")

SpecPage == InitPage /\ [][NextExtract]_vars

(* Claims on one page *)

\* the page last taken was not skipped
PageAssembled == page_number > 0 /\ \E i \in 1..Len(words) : HasSize(words[i])

CarriedBy(ws, v) == Cardinality({i \in 1..Len(ws) : HasSize(ws[i]) /\ ws[i].size = v})

\* C3: the dominant size of a page with a sized word is the size of one of
\* its words, and no size is carried by more words of the page.
C3_DominantSizeIsAMode ==
    PageAssembled =>
        /\ CarriedBy(words, most_common_size) > 0
        /\ \A i \in 1..Len(words) :
              HasSize(words[i]) =>
                  CarriedBy(words, words[i].size) <= CarriedBy(words, most_common_size)

C3_Witness ==
    /\ PageAssembled
    /\ HasSize(words[1])
    /\ words[1].size # most_common_size
    /\ CarriedBy(words, most_common_size) = 2

RECURSIVE Flatten(_)
Flatten(groups) ==
    IF Len(groups) = 0 THEN <<>> ELSE groups[1] \o Flatten(Tail(groups))

Occurs(ws, w) == Cardinality({i \in 1..Len(ws) : ws[i] = w})

\* C9 as claimed: a word is in the lines of the page exactly when it has a
\* size and that size is the dominant one, and then once for each time it is
\* on the page; a word without size is in no line.
C9_OnlyDominantSizeWords ==
    PageAssembled =>
        \A w \in Range(words) \cup Range(Flatten(line_words)) :
            Occurs(Flatten(line_words), w) =
                IF HasSize(w) /\ w.size = most_common_size THEN Occurs(words, w) ELSE 0

\* the line, as an index of line_words, holding word k of main_words
LineOf(groups, k) ==
    Min({j \in 1..Len(groups) : k <= Len(Flatten(SubSeq(groups, 1, j)))})

LinesCoverMainWords ==
    /\ Flatten(line_words) = main_words
    /\ \A j \in 1..Len(line_words) : Len(line_words[j]) > 0

\* C4 as amended: the lines are the sorted words cut where a word's top differs
\* by more than 2 from the word before it: two neighbours of the sorted order
\* are in the same line exactly when their tops differ by at most 2.
C4_LineBreaksFollowPreviousWord ==
    PageAssembled =>
        /\ LinesCoverMainWords
        /\ \A k \in 2..Len(main_words) :
              (LineOf(line_words, k) = LineOf(line_words, k - 1))
                  <=> (Abs(main_words[k].top - main_words[k - 1].top) <= 2)
        /\ \A k \in 2..Len(main_words) :
              LineOf(line_words, k) \in
                  {LineOf(line_words, k - 1), LineOf(line_words, k - 1) + 1}

\* C4 as claimed: a word is in a line exactly when its top is within 2 of the
\* top of the first word of that line, and a word whose top differs by more
\* than 2 from the word before it starts a new line.
C4_LineBandFromFirstWord ==
    PageAssembled =>
        /\ LinesCoverMainWords
        /\ \A k \in 1..Len(main_words) : \A j \in 1..Len(line_words) :
              (LineOf(line_words, k) = j)
                  <=> (Abs(main_words[k].top - line_words[j][1].top) <= 2)
        /\ \A k \in 2..Len(main_words) :
              Abs(main_words[k].top - main_words[k - 1].top) > 2
                  => LineOf(line_words, k) = LineOf(line_words, k - 1) + 1

C4_Witness ==
    /\ PageAssembled
    /\ Len(line_words) = 1
    /\ Len(line_words[1]) = 3
    /\ line_words[1][3].top - line_words[1][1].top > 2
    /\ main_text = <<<<"a", " ", "a", " ", "a">>>>

-----------------------------------------------------------------------------
(* extract_main_text alone, on two pages holding the same words in two     *)
(* orders.                                                                  *)

PermTokens ==
    {Sized(<<"a">>, 1, 0, 1), Sized(<<"b">>, 1, 1, 0), Sized(<<"b">>, 1, 0, 1),
     Sized(<<"a">>, 2, 0, 0), Sized(<<"b">>, 2, 4, 0), Sized(<<"a">>, 1, 4, 0)}

Reordered(p, f) == [i \in 1..Len(p) |-> p[f[i]]]

PermDocs(n) ==
    UNION {{<<p, Reordered(p, f)>> : f \in Permutations(1..Len(p))} :
              p \in SeqsUpTo(PermTokens, n)}

InitPerm == \E doc \in PermDocs(MaxWords) : InitWith(doc, "pages")

SpecPerm == InitPerm /\ [][NextExtract]_vars

(* Claims on the order of the words *)

LexLeq(a, b) == a.top < b.top \/ (a.top = b.top /\ a.x0 <= b.x0)

\* the words of page ws that the size filter keeps, as a set
KeptWords(ws) ==
    {w \in Range(ws) : Occurs(FilterMain(ws, MostCommonSize(FontSizes(ws))), w) > 0}

\* C5 as amended: whatever the order of the words supplied, the words kept
\* are laid out in ascending order of (top, x0) compared as a pair: lines in
\* ascending top, and inside a line by top first and by x0 among equal tops;
\* and two orders of the same words give the same page text whenever they
\* give the same dominant size and no two kept words of different text share
\* both top and x0.
C5_OrderIsLexicographic ==
    /\ PageAssembled =>
          /\ LinesCoverMainWords
          /\ \A w \in Range(words) \cup Range(main_words) :
                Occurs(main_words, w) = Occurs(FilterMain(words, most_common_size), w)
          /\ \A k \in 2..Len(main_words) : LexLeq(main_words[k - 1], main_words[k])
    /\ (/\ pc = "trim"
        /\ Len(main_text) = 2
        /\ MostCommonSize(FontSizes(pages[1])) = MostCommonSize(FontSizes(pages[2]))
        /\ \A v, w \in KeptWords(pages[1]) :
              (v.top = w.top /\ v.x0 = w.x0) => v.text = w.text)
          => main_text[1] = main_text[2]

\* C5 as claimed: two orders of the same words give the same page text, the
\* lines are in ascending top and the words of a line in ascending x0.
C5_OrderIndependentOfInput ==
    /\ (pc = "trim" /\ Len(main_text) = 2) => main_text[1] = main_text[2]
    /\ PageAssembled =>
          /\ \A j \in 2..Len(line_words) : line_words[j - 1][1].top <= line_words[j][1].top
          /\ \A j \in 1..Len(line_words) : \A k \in 2..Len(line_words[j]) :
                line_words[j][k - 1].x0 <= line_words[j][k].x0

C5_Witness ==
    /\ pc = "trim"
    /\ Len(main_text) = 2
    /\ pages[1] # pages[2]
    /\ Len(pages[1]) = 3
    /\ Len(line_words) = 2
    /\ MostCommonSize(FontSizes(pages[1])) = MostCommonSize(FontSizes(pages[2]))
    /\ \A v, w \in KeptWords(pages[1]) :
          (v.top = w.top /\ v.x0 = w.x0) => v.text = w.text
    /\ main_text[1] = main_text[2]

-----------------------------------------------------------------------------
(* extract_main_text alone, on documents of up to MaxPages pages, each      *)
(* empty or of one word: a marker, a word holding a marker, or neither.     *)

TrimWords ==
    {<<"x">>, Str_References, Str_Bibliography, Str_REFERENCES, Str_BIBLIOGRAPHY,
     <<"r","e","f","e","r","e","n","c","e","s">>, <<"x">> \o Str_Bibliography}

TrimPages == {<<>>} \cup {<<Sized(t, 1, 0, 0)>> : t \in TrimWords}

TrimDocs(n) == SeqsUpTo(TrimPages, n)

InitTrim == \E doc \in TrimDocs(MaxPages) : InitWith(doc, "pages")

SpecTrim == InitTrim /\ [][NextExtract]_vars

(* Claims on the trimming *)

Markers == {Str_References, Str_Bibliography, Str_REFERENCES, Str_BIBLIOGRAPHY}

\* marker m starts at the 0-based offset i of s
StartsAt(s, m, i) ==
    /\ i + Len(m) <= Len(s)
    /\ \A k \in 1..Len(m) : s[i + k] = m[k]

MarkerOffsets(s) == {i \in 0..Len(s) : \E m \in Markers : StartsAt(s, m, i)}

Prefix(s, n) == [k \in 1..n |-> s[k]]

\* C1 as claimed: when a marker occurs in the joined text, the returned text
\* is the part of it before the lowest offset at which any marker starts.
C1_TrimsAtEarliestMarker ==
    (pc = "returned" /\ MarkerOffsets(full_text) # {}) =>
        text = Prefix(full_text, Min(MarkerOffsets(full_text)))

\* C2 as claimed: trimming the returned text again changes nothing.
C2_TrimIsIdempotent ==
    pc = "returned" => TrimReferences(text) = text

\* C8: when no marker occurs in the joined text, the returned text is the
\* page texts joined by blank lines, unchanged.
C8_NoMarkerNoChange ==
    (pc = "returned" /\ MarkerOffsets(full_text) = {}) =>
        /\ text = full_text
        /\ text = Flatten([i \in 1..Len(main_text) |->
                            IF i = 1 THEN main_text[i] ELSE <<"\n", "\n">> \o main_text[i]])

C8_Witness ==
    /\ pc = "returned"
    /\ MarkerOffsets(full_text) = {}
    /\ Len(main_text) = 2
    /\ main_text[2] = <<"r","e","f","e","r","e","n","c","e","s">>
    /\ text = <<"x", "\n", "\n", "r","e","f","e","r","e","n","c","e","s">>

====
